---- MODULE Spec2Model ----
(***************************************************************************)
(* Model of the Google Storage backed object store of dstore               *)
(* (src/gsstore.go).  Strings are sequences of one-character strings so    *)
(* that path joining, trimming and the backend's byte-wise key order are   *)
(* computed, not assumed.  The bucket is a function from object key to the *)
(* stored bytes.                                                           *)
(***************************************************************************)
EXTENDS Integers, Sequences, FiniteSets, TLC

VARIABLES
  store,      \* the GSStore: base path, extension, compression, overwrite
  objects,    \* the bucket: object key -> stored bytes
  w,          \* per caller: the WriteObject / PushLocalFile call in progress
  ret,        \* outcome of the latest completed call, until the next call starts
  localFile   \* content of the local file PushLocalFile stages, or NoFile

vars == <<store, objects, w, ret, localFile>>

(***************************************************************************)
(* Bounds of the model.                                                    *)
(***************************************************************************)
MaxObjects == 2

MaxAt == 2

\* longest base path of a sub-store the caller goes on with
MaxBaseLen == 4

(***************************************************************************)
(* Characters and strings.                                                 *)
(***************************************************************************)
Ord(c) ==
  CASE c = "-" -> 45
    [] c = "." -> 46
    [] c = "/" -> 47
    [] c = "a" -> 97
    [] c = "b" -> 98
    [] c = "r" -> 114
    [] c = "x" -> 120

HasPrefix(s, p) ==
  /\ Len(p) <= Len(s)
  /\ SubSeq(s, 1, Len(p)) = p

HasSuffix(s, p) ==
  /\ Len(p) <= Len(s)
  /\ SubSeq(s, Len(s) - Len(p) + 1, Len(s)) = p

TrimPrefix(s, p) ==
  IF HasPrefix(s, p) THEN SubSeq(s, Len(p) + 1, Len(s)) ELSE s

TrimSuffix(s, p) ==
  IF HasSuffix(s, p) THEN SubSeq(s, 1, Len(s) - Len(p)) ELSE s

RECURSIVE TrimLeft(_, _)
TrimLeft(s, c) ==
  IF s # <<>> /\ Head(s) = c THEN TrimLeft(Tail(s), c) ELSE s

\* byte-wise lexicographic order, the order of a bucket listing
RECURSIVE StrLess(_, _)
StrLess(s, t) ==
  IF t = <<>> THEN FALSE
  ELSE IF s = <<>> THEN TRUE
  ELSE IF Ord(Head(s)) < Ord(Head(t)) THEN TRUE
  ELSE IF Ord(Head(s)) > Ord(Head(t)) THEN FALSE
  ELSE StrLess(Tail(s), Tail(t))

StrLeq(s, t) == s = t \/ StrLess(s, t)

(***************************************************************************)
(* path.Join / filepath.Join (identical on a slash-separated platform):    *)
(* empty elements are ignored, the rest joined by "/" and Cleaned.         *)
(***************************************************************************)
RECURSIVE SplitSlash(_, _, _)
SplitSlash(s, cur, acc) ==
  IF s = <<>> THEN Append(acc, cur)
  ELSE IF Head(s) = "/" THEN SplitSlash(Tail(s), <<>>, Append(acc, cur))
  ELSE SplitSlash(Tail(s), Append(cur, Head(s)), acc)

RECURSIVE CleanSegs(_, _, _)
CleanSegs(segs, rooted, stack) ==
  IF segs = <<>> THEN stack
  ELSE LET e == Head(segs) IN
    IF e = <<>> \/ e = <<".">> THEN CleanSegs(Tail(segs), rooted, stack)
    ELSE IF e = <<".", ".">> THEN
      IF stack # <<>> /\ stack[Len(stack)] # <<".", ".">>
        THEN CleanSegs(Tail(segs), rooted, SubSeq(stack, 1, Len(stack) - 1))
      ELSE IF rooted THEN CleanSegs(Tail(segs), rooted, stack)
      ELSE CleanSegs(Tail(segs), rooted, Append(stack, e))
    ELSE CleanSegs(Tail(segs), rooted, Append(stack, e))

RECURSIVE JoinSlash(_)
JoinSlash(segs) ==
  IF segs = <<>> THEN <<>>
  ELSE IF Len(segs) = 1 THEN segs[1]
  ELSE segs[1] \o <<"/">> \o JoinSlash(Tail(segs))

Clean(p) ==
  IF p = <<>> THEN <<".">>
  ELSE LET rooted == Head(p) = "/"
           out == (IF rooted THEN <<"/">> ELSE <<>>)
                    \o JoinSlash(CleanSegs(SplitSlash(p, <<>>, <<>>), rooted, <<>>))
       IN IF out = <<>> THEN <<".">> ELSE out

PathJoin(a, b) ==
  IF a = <<>> /\ b = <<>> THEN <<>>
  ELSE IF a = <<>> THEN Clean(b)
  ELSE IF b = <<>> THEN Clean(a)
  ELSE Clean(a \o <<"/">> \o b)

(***************************************************************************)
(* Inputs the operations are called with.                                  *)
(***************************************************************************)
BasePaths == { <<>>, <<"/", "r">>, <<"/", "r", "/">> }

Extensions == { <<>>, <<"x">> }

CompressionTypes == { "", "gzip" }

Names == { <<"a">>, <<"a", "-">>, <<"a", "/", "b">> }

Prefixes == { <<>>, <<"a">>, <<"a", "/">> }

StartingPoints == { <<>>, <<"a">>, <<"a", "/", "b">> }

Segments == { <<"a">>, <<".", ".">> }

Data == { <<1>>, <<2>> }

LocalContent == <<3>>

NoFile == <<>>

Callers == DOMAIN w

(***************************************************************************)
(* Error values.  A googleapi.Error carries the HTTP status code.          *)
(***************************************************************************)
StatusPreconditionFailed == 412

Err(t) == [type |-> t, code |-> 0]

GoogleapiError(code) == [type |-> "googleapi.Error", code |-> code]

Nil == Err("nil")

ErrNotFound == Err("ErrNotFound")

StopIteration == Err("StopIteration")

ErrObjectNotExist == Err("storage.ErrObjectNotExist")

ErrPrecondition == GoogleapiError(StatusPreconditionFailed)

ErrBackend == GoogleapiError(503)

ErrRead == Err("read error")

ErrCallback == Err("callback error")

ErrOpenLocal == Err("opening local file")

ErrRemove == Err("removing local file")

ErrHeader == Err("gzip: invalid header")

(***************************************************************************)
(* The store: NewGSStore and the name codec.                               *)
(***************************************************************************)
NewGSStore(basePath, extension, compressionType, overwrite) ==
  [ basePath        |-> basePath,
    extension       |-> extension,
    compressionType |-> compressionType,
    overwrite       |-> overwrite ]

\* the store a call that returns no store returns
NoStore == NewGSStore(<<>>, <<>>, "none", FALSE)

\* line 46, url.Parse(s.baseURL.String()): a path that does not begin with
\* "/" is written after the host with one, and is read back with it
ParseString(p) ==
  IF p # <<>> /\ Head(p) # "/" THEN <<"/">> \o p ELSE p

\* the parent's URL itself given the joined path
SubStoreResult_SharedURL(s, subFolder) ==
  LET p == PathJoin(ParseString(s.basePath), subFolder)
  IN [ parent |-> [s EXCEPT !.basePath = p],
       child  |-> NewGSStore(p, s.extension, s.compressionType, s.overwrite) ]

\* lines 45-52: the store as the call leaves it, and the store returned
SubStoreResult(s, subFolder) ==
  LET p == PathJoin(ParseString(s.basePath), subFolder)
  IN [ parent |-> s,
       child  |-> NewGSStore(p, s.extension, s.compressionType, s.overwrite) ]

pathWithExt(s, name) ==
  IF s.extension = <<>> THEN name ELSE name \o <<".">> \o s.extension

ObjectPath(s, name) ==
  PathJoin(TrimLeft(s.basePath, "/"), pathWithExt(s, name))

toBaseName(s, filename) ==
  TrimPrefix(TrimSuffix(filename, pathWithExt(s, <<>>)),
             TrimLeft(s.basePath, "/") \o <<"/">>)

(***************************************************************************)
(* Compression adapter.                                                    *)
(***************************************************************************)
GzipHeader == <<31, 139>>

compressedCopy(s, data) ==
  IF s.compressionType = "gzip" THEN GzipHeader \o data ELSE data

uncompressedReader(s, raw) ==
  IF s.compressionType = "gzip"
    THEN IF HasPrefix(raw, GzipHeader)
           THEN [out |-> TrimPrefix(raw, GzipHeader), ok |-> TRUE, err |-> Nil]
           ELSE [out |-> <<>>, ok |-> FALSE, err |-> ErrHeader]
    ELSE [out |-> raw, ok |-> TRUE, err |-> Nil]

(***************************************************************************)
(* The bucket, as the storage client shows it.                             *)
(***************************************************************************)
Put(objs, key, bytes) ==
  [k \in DOMAIN objs \cup {key} |-> IF k = key THEN bytes ELSE objs[k]]

Remove(objs, key) ==
  [k \in DOMAIN objs \ {key} |-> objs[k]]

\* Writer.Close: the upload is committed as a whole, or not at all
WriterClose(objs, key, cond, bytes, fault) ==
  IF fault THEN [objects |-> objs, err |-> ErrBackend]
  ELSE IF cond.DoesNotExist /\ key \in DOMAIN objs
    THEN [objects |-> objs, err |-> ErrPrecondition]
  ELSE [objects |-> Put(objs, key, bytes), err |-> Nil]

\* Writer.Write, as driven by compressedCopy: the upload runs while data is
\* copied, so a failure of the upload may already be reported to the copy
WriterWrite(objs, key, cond, ev) ==
  CASE ev = "read" -> ErrRead
    [] ev = "backend" -> ErrBackend
    [] ev = "precondition" -> ErrPrecondition

WriterWriteEnabled(objs, key, cond, ev) ==
  ev = "precondition" => (cond.DoesNotExist /\ key \in DOMAIN objs)

(***************************************************************************)
(* WriteObject and PushLocalFile.                                          *)
(***************************************************************************)
Conditions(s) == [DoesNotExist |-> ~s.overwrite]

silencePreconditionError(err) ==
  IF err.type = "googleapi.Error" /\ err.code = StatusPreconditionFailed
    THEN Nil
    ELSE err

WriteObjectCopyErr(s, err) == err

WriteObjectCloseErr(s, err) ==
  IF err # Nil
    THEN IF s.overwrite THEN err ELSE silencePreconditionError(err)
    ELSE Nil

\* the local file removed whatever the write returned
PushLocalFileRemoves_Always(push, err) == push

PushLocalFileRemoves(push, err) == push /\ err = Nil

IdleCall ==
  [pc |-> "idle", name |-> <<>>, data |-> <<>>, push |-> FALSE, existed |-> FALSE]

NoRet ==
  [ op |-> "none", name |-> <<>>, start |-> <<>>, at |-> 0, what |-> "none",
    err |-> Nil, data |-> <<>>, ok |-> FALSE, existed |-> FALSE, had |-> FALSE, names |-> <<>>,
    sub |-> NoStore, leak |-> FALSE, berr |-> Nil ]

\* a call starts once the outcome of the previous one has been taken
Idle == ret = NoRet /\ \A c \in Callers : w[c].pc = "idle"

Continue ==
  /\ ret # NoRet
  /\ ret' = NoRet
  /\ UNCHANGED <<store, objects, w, localFile>>

SubStore(subFolder) ==
  /\ Idle
  /\ LET r == SubStoreResult(store, subFolder)
     IN /\ store' = r.parent
        /\ ret' = [NoRet EXCEPT !.op = "SubStore", !.name = subFolder,
                     !.sub = r.child]
  /\ UNCHANGED <<objects, w, localFile>>

\* lines 71-80: the object handle and its writer; nothing is sent yet
WriteObjectBegin(c, name, data) ==
  /\ w[c].pc = "idle"
  /\ ret = NoRet
  /\ Cardinality(DOMAIN objects \cup {ObjectPath(store, name)}) <= MaxObjects
  /\ w' = [w EXCEPT ![c] = [pc |-> "writing", name |-> name, data |-> data,
                            push |-> FALSE,
                            existed |-> ObjectPath(store, name) \in DOMAIN objects]]
  /\ ret' = NoRet
  /\ UNCHANGED <<store, objects, localFile>>

\* pushLocalFile: open the local file and write it under the name; one local
\* file is staged by one caller at a time
PushLocalFileBegin(c, name) ==
  /\ w[c].pc = "idle"
  /\ ret = NoRet
  /\ \A d \in Callers : ~w[d].push
  /\ Cardinality(DOMAIN objects \cup {ObjectPath(store, name)}) <= MaxObjects
  /\ IF localFile = NoFile
       THEN /\ ret' = [NoRet EXCEPT !.op = "PushLocalFile", !.name = name,
                         !.err = ErrOpenLocal]
            /\ UNCHANGED <<w>>
       ELSE /\ w' = [w EXCEPT ![c] =
                       [pc |-> "writing", name |-> name, data |-> localFile,
                        push |-> TRUE,
                        existed |-> ObjectPath(store, name) \in DOMAIN objects]]
            /\ ret' = NoRet
  /\ UNCHANGED <<store, objects, localFile>>

\* the write of caller c returns err, leaving the bucket as objs; for
\* PushLocalFile the local file is then removed, which may fail (rmfails);
\* berr is the error the copy or the close reported to WriteObject
Returns(c, err, objs, rmfails, berr) ==
  LET removes == PushLocalFileRemoves(w[c].push, err)
  IN /\ w' = [w EXCEPT ![c] = IdleCall]
     /\ objects' = objs
     /\ localFile' = IF removes /\ ~rmfails THEN NoFile ELSE localFile
     /\ ret' = [NoRet EXCEPT
                  !.op = IF w[c].push THEN "PushLocalFile" ELSE "WriteObject",
                  !.name = w[c].name, !.data = w[c].data,
                  !.err = IF removes /\ rmfails THEN ErrRemove ELSE err,
                  !.berr = berr,
                  !.ok = (objs # objects),
                  !.existed = w[c].existed,
                  !.had = (ObjectPath(store, w[c].name) \in DOMAIN objects)]
     /\ UNCHANGED store

\* the writer closed on the way out, committing what was copied so far
WriteObjectCopyLeaves_ClosesWriter(objs, key, copied) == Put(objs, key, copied)

\* lines 82-84: WriteObject returns the compressedCopy error without closing
\* the writer, so that nothing of the upload is committed
WriteObjectCopyLeaves(objs, key, copied) == objs

\* lines 82-84: compressedCopy fails, the writer is left unclosed
WriteObjectCopy(c) ==
  /\ w[c].pc = "writing"
  /\ \E ev \in {"read", "backend", "precondition"} :
       LET key == ObjectPath(store, w[c].name)
       IN /\ WriterWriteEnabled(objects, key, Conditions(store), ev)
          /\ Returns(c, WriteObjectCopyErr(store,
                          WriterWrite(objects, key, Conditions(store), ev)),
                     WriteObjectCopyLeaves(objects, key, <<>>), FALSE,
                     WriterWrite(objects, key, Conditions(store), ev))

\* lines 82-93: compressedCopy succeeds and the writer is closed
WriteObjectClose(c) ==
  /\ w[c].pc = "writing"
  /\ \E fault \in BOOLEAN, rmfails \in BOOLEAN :
       LET key == ObjectPath(store, w[c].name)
           r == WriterClose(objects, key, Conditions(store),
                            compressedCopy(store, w[c].data), fault)
           err == WriteObjectCloseErr(store, r.err)
       IN /\ rmfails => PushLocalFileRemoves(w[c].push, err)
          /\ Returns(c, err, r.objects, rmfails, r.err)

(***************************************************************************)
(* OpenObject, DeleteObject, FileExists.                                   *)
(***************************************************************************)
\* ObjectHandle.NewReader
NewReader(objs, key, fault) ==
  IF fault THEN [raw |-> <<>>, err |-> ErrBackend]
  ELSE IF key \notin DOMAIN objs THEN [raw |-> <<>>, err |-> ErrObjectNotExist]
  ELSE [raw |-> objs[key], err |-> Nil]

\* ObjectHandle.Delete
ObjectDelete(objs, key, fault) ==
  IF fault THEN [objects |-> objs, err |-> ErrBackend]
  ELSE IF key \notin DOMAIN objs THEN [objects |-> objs, err |-> ErrObjectNotExist]
  ELSE [objects |-> Remove(objs, key), err |-> Nil]

\* ObjectHandle.Attrs
Attrs(objs, key, fault) ==
  IF fault THEN ErrBackend
  ELSE IF key \notin DOMAIN objs THEN ErrObjectNotExist
  ELSE Nil

\* the raw reader handed out without the decompressing reader
OpenObjectResult_Raw(s, objs, name, fault) ==
  LET r == NewReader(objs, ObjectPath(s, name), fault)
  IN IF r.err # Nil
       THEN IF r.err = ErrObjectNotExist
              THEN [out |-> <<>>, ok |-> FALSE, err |-> ErrNotFound]
              ELSE [out |-> <<>>, ok |-> FALSE, err |-> r.err]
       ELSE [out |-> r.raw, ok |-> TRUE, err |-> Nil]

\* the backend's own absence error returned instead of the sentinel
OpenObjectResult_NoSentinel(s, objs, name, fault) ==
  LET r == NewReader(objs, ObjectPath(s, name), fault)
  IN IF r.err # Nil
       THEN [out |-> <<>>, ok |-> FALSE, err |-> r.err]
       ELSE uncompressedReader(s, r.raw)

OpenObjectResult(s, objs, name, fault) ==
  LET r == NewReader(objs, ObjectPath(s, name), fault)
  IN IF r.err # Nil
       THEN IF r.err = ErrObjectNotExist
              THEN [out |-> <<>>, ok |-> FALSE, err |-> ErrNotFound]
              ELSE [out |-> <<>>, ok |-> FALSE, err |-> r.err]
       ELSE uncompressedReader(s, r.raw)

\* the backend's absence error returned to the caller
\* the bucket as a reader of key finds it when the connection is lost before
\* the first byte arrives: the reader is open and yields nothing
ReadFails(objs, key) == Put(objs, key, <<>>)

\* lines 111-126: OpenObject closes the raw reader nowhere; the reader is
\* closed by the stream handed to the caller, when one is handed out.  True
\* when the call returns with the reader open and owned by nothing.
OpenObjectLeavesReader(s, objs, name, fault) ==
  /\ NewReader(objs, ObjectPath(s, name), fault).err = Nil
  /\ ~OpenObjectResult(s, objs, name, fault).ok

FileExistsResult_AbsenceIsError(s, objs, name, fault) ==
  LET err == Attrs(objs, ObjectPath(s, name), fault)
  IN IF err # Nil
       THEN [ok |-> FALSE, err |-> err]
       ELSE [ok |-> TRUE, err |-> Nil]

\* lines 134-146
FileExistsResult(s, objs, name, fault) ==
  LET err == Attrs(objs, ObjectPath(s, name), fault)
  IN IF err # Nil
       THEN IF err = ErrObjectNotExist
              THEN [ok |-> FALSE, err |-> Nil]
              ELSE [ok |-> FALSE, err |-> err]
       ELSE [ok |-> TRUE, err |-> Nil]

OpenObject(name, fault) ==
  /\ Idle
  /\ LET r == OpenObjectResult(store, objects, name, fault)
     IN ret' = [NoRet EXCEPT !.op = "OpenObject", !.name = name,
                  !.what = IF fault THEN "fault" ELSE "none",
                  !.err = r.err, !.data = r.out, !.ok = r.ok,
                  !.leak = OpenObjectLeavesReader(store, objects, name, fault)]
  /\ UNCHANGED <<store, objects, w, localFile>>

\* OpenObject of a name that has an object, the read of which fails
OpenObjectReadFails(name) ==
  /\ Idle
  /\ ObjectPath(store, name) \in DOMAIN objects
  /\ LET seen == ReadFails(objects, ObjectPath(store, name))
         r == OpenObjectResult(store, seen, name, FALSE)
     IN ret' = [NoRet EXCEPT !.op = "OpenObject", !.name = name,
                  !.what = "read",
                  !.err = r.err, !.data = r.out, !.ok = r.ok,
                  !.leak = OpenObjectLeavesReader(store, seen, name, FALSE)]
  /\ UNCHANGED <<store, objects, w, localFile>>

\* deleting a name that has no object reported as success
DeleteObjectResult_AbsenceIsSuccess(s, objs, name, fault) ==
  LET r == ObjectDelete(objs, ObjectPath(s, name), fault)
  IN IF r.err = ErrObjectNotExist THEN [r EXCEPT !.err = Nil] ELSE r

\* lines 129-132
DeleteObjectResult(s, objs, name, fault) ==
  ObjectDelete(objs, ObjectPath(s, name), fault)

DeleteObject(name, fault) ==
  /\ Idle
  /\ LET r == DeleteObjectResult(store, objects, name, fault)
     IN /\ objects' = r.objects
        /\ ret' = [NoRet EXCEPT !.op = "DeleteObject", !.name = name,
                     !.what = IF fault THEN "fault" ELSE "none",
                     !.err = r.err]
  /\ UNCHANGED <<store, w, localFile>>

FileExists(name, fault) ==
  /\ Idle
  /\ LET r == FileExistsResult(store, objects, name, fault)
     IN ret' = [NoRet EXCEPT !.op = "FileExists", !.name = name,
                  !.what = IF fault THEN "fault" ELSE "none",
                  !.err = r.err, !.ok = r.ok]
  /\ UNCHANGED <<store, objects, w, localFile>>

(***************************************************************************)
(* Walk, WalkFrom, ListFiles.                                              *)
(***************************************************************************)
RECURSIVE SortKeys(_)
SortKeys(S) ==
  IF S = {} THEN <<>>
  ELSE LET m == CHOOSE x \in S : \A y \in S : StrLeq(x, y)
       IN <<m>> \o SortKeys(S \ {m})

\* BucketHandle.Objects: keys with the query's prefix, at or after its
\* start offset, in lexicographic order
Objects(objs, q) ==
  SortKeys({ k \in DOMAIN objs : /\ HasPrefix(k, q.Prefix)
                                 /\ StrLeq(q.StartOffset, k) })

\* the separator that filepath.Join cleaned off the prefix not put back
Query_NoSeparator(s, prefix, startingPoint) ==
  LET base == TrimLeft(s.basePath, "/") \o <<"/">>
      qp == IF prefix # <<>> THEN PathJoin(base, prefix) ELSE base
  IN [ Prefix |-> qp,
       StartOffset |-> IF startingPoint # <<>>
                         THEN PathJoin(qp, startingPoint)
                         ELSE <<>> ]

\* lines 165-177
Query(s, prefix, startingPoint) ==
  LET base == TrimLeft(s.basePath, "/") \o <<"/">>
      qp == IF prefix # <<>>
              THEN IF prefix[Len(prefix)] = "/"
                     THEN PathJoin(base, prefix) \o <<"/">>
                     ELSE PathJoin(base, prefix)
              ELSE base
  IN [ Prefix |-> qp,
       StartOffset |-> IF startingPoint # <<>>
                         THEN PathJoin(qp, startingPoint)
                         ELSE <<>> ]

\* what the caller's function f returns on its n-th invocation
Callback(what, at, n) ==
  IF n = at /\ what = "stop" THEN StopIteration
  ELSE IF n = at /\ what = "cberr" THEN ErrCallback
  ELSE Nil

\* the stop sentinel returned to the caller like any other error
WalkCallbackErr_NoStop(err) ==
  IF err # Nil
    THEN [return |-> TRUE, err |-> err]
    ELSE [return |-> FALSE, err |-> Nil]

\* an error of f other than the stop sentinel passed over
WalkCallbackErr_GoesOn(err) ==
  IF err = StopIteration
    THEN [return |-> TRUE, err |-> Nil]
    ELSE [return |-> FALSE, err |-> Nil]

\* lines 188-193: what the loop does with the error f returned
WalkCallbackErr(err) ==
  IF err # Nil
    THEN IF err = StopIteration
           THEN [return |-> TRUE, err |-> Nil]
           ELSE [return |-> TRUE, err |-> err]
    ELSE [return |-> FALSE, err |-> Nil]

\* the for loop: it is what the iterator has left, n counts it.Next calls
RECURSIVE WalkLoop(_, _, _, _, _, _)
WalkLoop(s, it, what, at, n, called) ==
  IF what = "itfail" /\ at = n THEN [names |-> called, err |-> ErrBackend]
  ELSE IF it = <<>> THEN [names |-> called, err |-> Nil]
  ELSE LET now == Append(called, toBaseName(s, Head(it)))
           r == WalkCallbackErr(Callback(what, at, n))
       IN IF r.return
            THEN [names |-> now, err |-> r.err]
            ELSE WalkLoop(s, Tail(it), what, at, n + 1, now)

WalkFromResult(s, objs, prefix, startingPoint, what, at) ==
  WalkLoop(s, Objects(objs, Query(s, prefix, startingPoint)), what, at, 1, <<>>)

WalkResult(s, objs, prefix, what, at) ==
  WalkFromResult(s, objs, prefix, <<>>, what, at)

\* listFiles: f collects names and returns StopIteration once max are held
listFiles(s, objs, prefix, max) ==
  LET r == WalkResult(s, objs, prefix, "stop", max + 1)
  IN [ names |-> IF Len(r.names) > max THEN SubSeq(r.names, 1, max) ELSE r.names,
       err |-> r.err ]

Scenarios == {[what |-> "none", at |-> 0]} \cup
             [what : {"stop", "cberr", "itfail"}, at : 1..MaxAt]

WalkFrom(prefix, startingPoint, sc) ==
  /\ Idle
  /\ LET r == WalkFromResult(store, objects, prefix, startingPoint, sc.what, sc.at)
     IN ret' = [NoRet EXCEPT !.op = "WalkFrom", !.name = prefix,
                  !.start = startingPoint, !.what = sc.what, !.at = sc.at,
                  !.err = r.err, !.names = r.names]
  /\ UNCHANGED <<store, objects, w, localFile>>

ListFiles(prefix, max) ==
  /\ Idle
  /\ LET r == listFiles(store, objects, prefix, max)
     IN ret' = [NoRet EXCEPT !.op = "ListFiles", !.name = prefix, !.at = max,
                  !.err = r.err, !.names = r.names]
  /\ UNCHANGED <<store, objects, w, localFile>>

(***************************************************************************)
(* The specification.                                                      *)
(***************************************************************************)
Stores ==
  { NewGSStore(b, e, ct, o) :
      b \in BasePaths, e \in Extensions, ct \in CompressionTypes, o \in BOOLEAN }

InitWith(stores, callers) ==
  /\ store \in stores
  /\ objects = << >>
  /\ w = [c \in callers |-> IdleCall]
  /\ ret = NoRet
  /\ localFile = LocalContent

Init == InitWith(Stores, {"c1"})

Next ==
  \/ \E c \in Callers, n \in Names, d \in Data : WriteObjectBegin(c, n, d)
  \/ \E c \in Callers, n \in Names : PushLocalFileBegin(c, n)
  \/ \E c \in Callers : WriteObjectCopy(c)
  \/ \E c \in Callers : WriteObjectClose(c)
  \/ \E n \in Names, fault \in BOOLEAN : OpenObject(n, fault)
  \/ \E n \in Names : OpenObjectReadFails(n)
  \/ \E n \in Names, fault \in BOOLEAN : DeleteObject(n, fault)
  \/ \E n \in Names, fault \in BOOLEAN : FileExists(n, fault)
  \/ \E p \in Prefixes, sp \in StartingPoints, sc \in Scenarios : WalkFrom(p, sp, sc)
  \/ \E p \in Prefixes, max \in 0..MaxAt : ListFiles(p, max)
  \/ \E seg \in Segments : SubStore(seg)
  \/ Continue

Spec == Init /\ [][Next]_vars

\* one store used by two callers at once; the race depends neither on where
\* the store is rooted nor on how it compresses
RaceStores ==
  { s \in Stores : /\ s.basePath = <<"/", "r">>
                    /\ s.extension = <<"x">>
                    /\ s.compressionType = "" }

InitRace == InitWith(RaceStores, {"c1", "c2"})

SpecRace == InitRace /\ [][Next]_vars

\* the caller goes on with the store that SubStore returned
UseSubStore ==
  /\ ret.op = "SubStore"
  /\ Len(ret.sub.basePath) <= MaxBaseLen
  /\ store' = ret.sub
  /\ ret' = NoRet
  /\ UNCHANGED <<objects, w, localFile>>

\* a root store and the stores derived from it by chains of SubStore calls,
\* all on one bucket
RootPath == <<"/", "r">>

RootStores ==
  { s \in Stores : /\ s.basePath = RootPath
                    /\ s.extension = <<"x">>
                    /\ s.compressionType = ""
                    /\ s.overwrite }

InitSub == InitWith(RootStores, {"c1"})

NextSub == Next \/ UseSubStore

SpecSub == InitSub /\ [][NextSub]_vars

(***************************************************************************)
(* Properties.                                                             *)
(***************************************************************************)
\* failures of the environment that no claim about the store excludes
IOFailure(err) == err \in {ErrBackend, ErrRead, ErrRemove, ErrOpenLocal}

WroteObject == ret.op = "WriteObject" /\ ~IOFailure(ret.err)

RetKey == ObjectPath(store, ret.name)

\* the names written through the store whose objects are in the bucket
Written == { n \in Names : ObjectPath(store, n) \in DOMAIN objects }

RECURSIVE NamesOfKeys(_, _)
NamesOfKeys(keys, names) ==
  IF keys = <<>> THEN <<>>
  ELSE <<CHOOSE n \in names : ObjectPath(store, n) = Head(keys)>>
         \o NamesOfKeys(Tail(keys), names)

\* the written names that begin with the prefix, in the key order of their objects
NamesUnder(prefix) ==
  LET under == { n \in Written : HasPrefix(n, prefix) }
  IN NamesOfKeys(SortKeys({ ObjectPath(store, n) : n \in under }), under)

Min(a, b) == IF a < b THEN a ELSE b

IndexOf(seq, x) == CHOOSE i \in 1..Len(seq) : seq[i] = x

InSeq(seq, x) == \E i \in 1..Len(seq) : seq[i] = x

\* C1: on an overwrite=false store a WriteObject to a name that already holds
\* an object returns no error and leaves the bucket as it was.
C1_SecondWriteIsNoOp ==
  (WroteObject /\ ~store.overwrite /\ ret.existed)
    => (ret.err = Nil /\ ~ret.ok)

\* C2: of the callers racing to write one name on an overwrite=false store
\* the first to commit has its content stored, no later one replaces it, and
\* every one of them returns no error.
C2_RacingWritersSucceed ==
  (WroteObject /\ ~store.overwrite /\ ~ret.existed)
    => /\ ret.err = Nil
       /\ ret.had => ~ret.ok
       /\ ~ret.had => (ret.ok /\ objects[RetKey] = compressedCopy(store, ret.data))

\* C3: on an overwrite=true store, once WriteObject(name, B) has returned no
\* error, OpenObject(name) returns exactly B, whatever was stored before and
\* whatever the compression.
C3_OpenReturnsLatestWrite ==
  (ret.op = "WriteObject" /\ store.overwrite /\ ret.err = Nil)
    => OpenObjectResult(store, objects, ret.name, FALSE)
         = [out |-> ret.data, ok |-> TRUE, err |-> Nil]

\* a second write has replaced an object on a compressing overwrite=true store
C3_Witness ==
  /\ ret.op = "WriteObject" /\ store.overwrite /\ ret.err = Nil
  /\ ret.existed /\ ret.ok
  /\ store.compressionType = "gzip"

\* C4: Walk hands the callback every written name under the prefix, once, in
\* key order, and no other name.
C4_WalkVisitsAllUnderPrefix ==
  (ret.op = "WalkFrom" /\ ret.start = <<>> /\ ret.what = "none")
    => (ret.err = Nil /\ ret.names = NamesUnder(ret.name))

\* C5: when the callback returns the stop sentinel on its k-th invocation the
\* walk returns no error and the callback has been invoked exactly k times.
C5_StopEndsWalk ==
  (ret.op = "WalkFrom" /\ ret.what = "stop" /\ Len(ret.names) >= ret.at)
    => (ret.err = Nil /\ Len(ret.names) = ret.at)

\* the callback stopped a walk that had a further object to visit
C5_Witness ==
  /\ ret.op = "WalkFrom" /\ ret.what = "stop"
  /\ Len(ret.names) = ret.at
  /\ Len(Objects(objects, Query(store, ret.name, ret.start))) > ret.at

\* C6: WalkFrom with the name of the i-th object Walk(prefix) visits as
\* startingPoint visits exactly the objects i..n of that order.
C6_WalkFromResumes ==
  LET all == WalkResult(store, objects, ret.name, "none", 0).names
  IN (ret.op = "WalkFrom" /\ ret.start # <<>> /\ ret.what = "none"
        /\ InSeq(all, ret.start))
       => ret.names = SubSeq(all, IndexOf(all, ret.start), Len(all))

\* C7: ListFiles(prefix, max) returns, with no error, the first min(max, m)
\* of the m written names under the prefix, in key order.
C7_ListFilesFirstMax ==
  ret.op = "ListFiles"
    => LET under == NamesUnder(ret.name)
       IN /\ ret.err = Nil
          /\ ret.names = SubSeq(under, 1, Min(ret.at, Len(under)))

PushedLocalFile == ret.op = "PushLocalFile" /\ ret.err # ErrOpenLocal

\* C8 as stated: when the write fails the local file is still there, and when
\* the local file has been removed the object under the name holds its content.
C8_RemovedOnlyWhenStored ==
  PushedLocalFile
    => /\ (ret.err # Nil /\ ret.err # ErrRemove) => localFile # NoFile
       /\ localFile = NoFile
            => /\ RetKey \in DOMAIN objects
               /\ objects[RetKey] = compressedCopy(store, ret.data)

\* C8 as amended: the local file is removed only when PushLocalFile returns no
\* error; an object is then stored under the name, and it holds the local
\* file's content unless the store is overwrite=false and the name already held
\* an object, which the write has left as it was.
C8_RemovedOnlyWhenWriteReturnedNil ==
  PushedLocalFile
    => /\ ret.err # Nil => localFile # NoFile
       /\ localFile = NoFile
            => /\ ret.err = Nil
               /\ RetKey \in DOMAIN objects
               /\ \/ objects[RetKey] = compressedCopy(store, ret.data)
                  \/ ~store.overwrite /\ ret.had /\ ~ret.ok

\* the local file is gone and the name still holds the older object
C8_Witness ==
  /\ PushedLocalFile /\ localFile = NoFile
  /\ ~store.overwrite /\ ret.had
  /\ objects[RetKey] # compressedCopy(store, ret.data)

\* C9: toBaseName(ObjectPath(n)) = n, for every name written through the store.
C9_NameRoundTrip ==
  \A n \in Written : toBaseName(store, ObjectPath(store, n)) = n

\* C10: OpenObject on a name that has no object, answered by the backend,
\* returns ErrNotFound and no stream.
C10_OpenAbsentIsNotFound ==
  (ret.op = "OpenObject" /\ ret.what = "none" /\ RetKey \notin DOMAIN objects)
    => (ret.err = ErrNotFound /\ ~ret.ok /\ ret.data = <<>>)

\* OpenObject has been answered for a missing name while the bucket holds
\* other objects
C10_Witness ==
  /\ ret.op = "OpenObject" /\ ret.what = "none"
  /\ RetKey \notin DOMAIN objects
  /\ objects # << >>
  /\ ret.err = ErrNotFound

\* C11: FileExists answered by the backend returns (false, nil) when the name
\* has no object and (true, nil) when it has one; a backend error other than
\* absence is returned as the error, with false.
C11_FileExistsAnswers ==
  ret.op = "FileExists"
    => /\ ret.what = "none"
            => /\ ret.err = Nil
               /\ ret.ok <=> (\E n \in Written : n = ret.name)
       /\ ret.what = "fault" => (ret.err = ErrBackend /\ ~ret.ok)

\* FileExists has answered false for a name without an object while another
\* name has one
C11_Witness ==
  /\ ret.op = "FileExists" /\ ret.what = "none"
  /\ RetKey \notin DOMAIN objects
  /\ objects # << >>
  /\ ~ret.ok /\ ret.err = Nil

RECURSIVE TrimRight(_, _)
TrimRight(s, c) ==
  IF s # <<>> /\ s[Len(s)] = c THEN TrimRight(SubSeq(s, 1, Len(s) - 1), c) ELSE s

\* a path without the separators around it
Bare(p) == TrimRight(TrimLeft(p, "/"), "/")

\* a segment that is one plain name
PlainSegment(seg) == \A i \in 1..Len(seg) : seg[i] \notin {"/", "."}

\* C12: SubStore(seg) returns a store with the parent's extension,
\* compression and overwrite flag whose base path is the parent's base path
\* followed by seg, and the call leaves the parent as it was.
C12_SubStoreJoinsBase ==
  [][ (ret = NoRet /\ ret'.op = "SubStore")
        => /\ store' = store
           /\ ret'.sub.extension = store.extension
           /\ ret'.sub.compressionType = store.compressionType
           /\ ret'.sub.overwrite = store.overwrite
           /\ PlainSegment(ret'.name)
                => Bare(ret'.sub.basePath) =
                     IF Bare(store.basePath) = <<>>
                       THEN ret'.name
                       ELSE Bare(store.basePath) \o <<"/">> \o ret'.name ]_vars

\* SubStore("a") of a compressing store rooted at "/r/" has returned the store
\* rooted at "/r/a"
C12_Witness ==
  /\ ret.op = "SubStore" /\ ret.name = <<"a">>
  /\ store.basePath = <<"/", "r", "/">>
  /\ store.compressionType = "gzip"
  /\ ret.sub = NewGSStore(<<"/", "r", "/", "a">>, store.extension, "gzip",
                           store.overwrite)

\* C13: DeleteObject answered by the backend, on a name without an object,
\* returns the backend's absence error as it is and leaves the bucket as it
\* was; on a name with an object it returns no error and removes that object
\* and no other, after which FileExists is (false, nil) and OpenObject is
\* ErrNotFound for the name.
C13_DeleteRemovesExactlyThat ==
  [][ (ret = NoRet /\ ret'.op = "DeleteObject" /\ ret'.what = "none")
        => LET key == ObjectPath(store, ret'.name)
           IN IF key \in DOMAIN objects
                THEN /\ ret'.err = Nil
                     /\ DOMAIN objects' = DOMAIN objects \ {key}
                     /\ \A k \in DOMAIN objects' : objects'[k] = objects[k]
                     /\ FileExistsResult(store, objects', ret'.name, FALSE)
                          = [ok |-> FALSE, err |-> Nil]
                     /\ OpenObjectResult(store, objects', ret'.name, FALSE).err
                          = ErrNotFound
                ELSE /\ ret'.err = ErrObjectNotExist
                     /\ ret'.err # ErrNotFound
                     /\ objects' = objects ]_vars

\* DeleteObject of a name without an object has returned the backend's
\* absence error while the bucket holds another object
C13_Witness ==
  /\ ret.op = "DeleteObject" /\ ret.what = "none"
  /\ ret.err = ErrObjectNotExist
  /\ RetKey \notin DOMAIN objects
  /\ objects # << >>

\* C14: when OpenObject, Walk, WalkFrom or ListFiles returns, no raw reader
\* or listing iterator that the call acquired is left open without an owner.
C14_ResourcesReleased ==
  ret.op \in {"OpenObject", "WalkFrom", "ListFiles"} => ~ret.leak

\* C15: what WriteObject returns is fixed by the overwrite flag and the error
\* the backend reported: on an overwrite=false store a precondition failure
\* gives no error, at whichever step it was reported; every other error, and
\* on an overwrite=true store every error, is returned as it is.
C15_WriteOutcome ==
  ret.op = "WriteObject"
    => ret.err = IF ~store.overwrite /\ ret.berr = ErrPrecondition
                   THEN Nil
                   ELSE ret.berr

\* the keys the listing of the latest walk had to give
Listing == Objects(objects, Query(store, ret.name, ret.start))

\* C16: a walk whose callback returns an error other than the stop sentinel
\* on its at-th invocation returns that error and has invoked the callback
\* at times; a walk whose listing fails on the at-th request returns the
\* listing's error and has invoked the callback at-1 times.
C16_ErrorEndsWalk ==
  ret.op = "WalkFrom"
    => /\ (ret.what = "cberr" /\ Len(Listing) >= ret.at)
            => (ret.err = ErrCallback /\ Len(ret.names) = ret.at)
       /\ (ret.what = "itfail" /\ Len(Listing) >= ret.at - 1)
            => (ret.err = ErrBackend /\ Len(ret.names) = ret.at - 1)

\* the callback has failed on the first of two objects the listing had
C16_Witness ==
  /\ ret.op = "WalkFrom" /\ ret.what = "cberr" /\ ret.at = 1
  /\ Len(Listing) >= 2
  /\ ret.err = ErrCallback /\ Len(ret.names) = 1

\* C17: a walk or listing with a prefix that ends in a separator hands out
\* only objects of names that begin with the prefix, separator included.
C17_SeparatorPrefixKeepsSiblingsOut ==
  (/\ ret.op \in {"WalkFrom", "ListFiles"}
   /\ ret.name # <<>>
   /\ ret.name[Len(ret.name)] = "/")
    => \A i \in 1..Len(ret.names) :
         \E n \in Written : /\ HasPrefix(n, ret.name)
                             /\ Listing[i] = ObjectPath(store, n)

\* a walk of "a/" has visited an object while the bucket holds the object of
\* the name "a"
C17_Witness ==
  /\ ret.op = "WalkFrom" /\ ret.name = <<"a", "/">>
  /\ ret.names # <<>>
  /\ <<"a">> \in Written

\* the prefix of every key under the root store's base path
RootPrefix == TrimLeft(RootPath, "/") \o <<"/">>

\* C18: whatever chain of SubStore calls the store in use comes from, the
\* key that WriteObject, PushLocalFile, OpenObject, DeleteObject or FileExists
\* acts on, and the prefix that a walk or listing asks the backend for, lie
\* under the root store's base path.
C18_KeysUnderRoot ==
  /\ ret.op \in {"WriteObject", "PushLocalFile", "OpenObject", "DeleteObject",
                  "FileExists"}
       => HasPrefix(RetKey, RootPrefix)
  /\ ret.op \in {"WalkFrom", "ListFiles"}
       => HasPrefix(Query(store, ret.name, ret.start).Prefix, RootPrefix)
  /\ \A k \in DOMAIN objects : HasPrefix(k, RootPrefix)

\* C19: a WriteObject that returns an error leaves the bucket as it was.
C19_FailedWriteChangesNothing ==
  [][ (w' # w /\ ret'.op = "WriteObject" /\ ret'.err # Nil)
        => objects' = objects ]_vars

\* a WriteObject to a name without an object has failed while copying, and
\* the name has no object
C19_Witness ==
  /\ ret.op = "WriteObject" /\ ret.err = ErrRead
  /\ RetKey \notin DOMAIN objects

\* C20: every name a walk or listing hands out leads back to the object it
\* was made from: ObjectPath of the name is the key that was enumerated.
C20_EnumeratedNamesResolve ==
  ret.op \in {"WalkFrom", "ListFiles"}
    => \A i \in 1..Len(ret.names) :
         ObjectPath(store, ret.names[i]) = Listing[i]

====
